---- MODULE Spec2Model ----
(***************************************************************************)
(* Model of magic_image's Tauri back end:                                  *)
(*   - download_file (src-tauri/src/main.rs): streamed download with a     *)
(*     3-iteration retry loop, backoff sleeps and progress events;         *)
(*   - SimpleDatabase (src-tauri/src/simple_database.rs): the batch_tasks  *)
(*     table with its JSON text columns.                                   *)
(* Text (JSON blobs, SQL literals, ids, timestamps) is a sequence of       *)
(* symbols; error messages are sequences of fragments.                     *)
(***************************************************************************)
EXTENDS Integers, Sequences, FiniteSets, Bags, TLC

VARIABLES
    \* ---- download_file: one invocation ----
    pc,          \* position of the invocation in download_file
    dir,         \* argument dir: Option<String>
    urlOk,       \* whether the argument url parses as a URL
    attempt,     \* loop variable of "for attempt in 0..3"
    attempts,    \* number of client.execute calls made so far
    last_err,    \* last_err: Option<String>
    total,       \* total (Content-Length, 0 when unknown)
    file,        \* the file at save_path
    downloaded,  \* downloaded: u64
    n,           \* n, the size of the chunk read last
    chunks,      \* number of non-empty reads of the current response body
    events,      \* payloads passed to app_handle.emit("download:progress", ..)
    slept,       \* thread::sleep calls, in order
    result,      \* what download_file returned
    returns,     \* number of times the invocation has returned
    seen,        \* what each client.execute call produced, in order
    readFailed,  \* a resp.read call of this invocation returned Err
    ioFailedAt,  \* 0, or the value of attempts when File::create/write_all failed
    written,     \* the file length after each successful write_all, in order
    opens,       \* number of File::create(&save_path) calls made so far
    \* ---- SimpleDatabase: the file batch_tasks.db ----
    created,     \* whether the table batch_tasks exists
    table,       \* the rows of batch_tasks
    lastOp,      \* the last store command: its name, argument and return value
    prev,        \* the rows of batch_tasks before the last store command
    \* ---- store commands invoked concurrently ----
    cpc,         \* position of each caller's command
    cloc,        \* each caller's locals: row, task_ids, max_tasks_to_keep, return
    lastWrite    \* per task id: the row of the last INSERT OR REPLACE executed,
                 \* None once a later statement deleted the row

dlVars == <<pc, dir, urlOk, attempt, attempts, last_err, total, file, downloaded,
            n, chunks, events, slept, result, returns, seen, readFailed, ioFailedAt,
            written, opens>>

ccVars == <<cpc, cloc, lastWrite>>

stVars == <<created, table, lastOp, prev, ccVars>>

vars == <<dlVars, stVars>>

(***************************************************************************)
(* Bounds of the model and constants of the program.                       *)
(***************************************************************************)
\* main.rs:160  for attempt in 0..3
MaxAttempts == 3
\* main.rs:187  let mut buffer = [0u8; 64 * 1024]
BufSize == 65536
\* main.rs:223  Duration::from_millis(300 * (attempt + 1))
BackoffUnitMs == 300
\* a response body delivers at most MaxChunks non-empty reads
MaxChunks == 2
\* length of the content the destination file may hold before the invocation
PriorLen == 5

(***************************************************************************)
(* Option<T> and Result<T, String>.                                        *)
(***************************************************************************)
None == [some |-> FALSE, v |-> <<>>]
Some(x) == [some |-> TRUE, v |-> x]

Ok(x) == [tag |-> "Ok", v |-> x]
Err(m) == [tag |-> "Err", v |-> m]
NoResult == [tag |-> "none", v |-> <<>>]

\* a store command: its name, its argument, what it returned, and for a save
\* whether the command before it was a save of the same task
NoOp == [name |-> "none", arg |-> <<>>, ret |-> NoResult, again |-> FALSE]
Op(name, arg, ret) == [name |-> name, arg |-> arg, ret |-> ret, again |-> FALSE]

\* the invocations of store commands that can be in progress at once
Callers == {"a", "b"}
\* the locals of a caller that is in no command: ret is what its last command
\* returned
NoLocal == [row |-> <<>>, task_ids |-> <<>>, max |-> 0, ret |-> NoResult]

Contains(msg, frag) == \E i \in 1..Len(msg) : msg[i] = frag

(***************************************************************************)
(* The environment of a download: what the network and the file system     *)
(* can answer.                                                             *)
(***************************************************************************)
TransportErrors == {"timed out", "connection refused"}
Statuses == {200, 404, 500}
ReadErrors == {"unexpected EOF"}
IoErrors == {"permission denied"}
\* Content-Length of a response: absent, or some declared length
ContentLengths == {None, Some(BufSize + 1)}
\* sizes a non-empty resp.read(&mut buffer) can return: 1..BufSize, sampled
ChunkSizes == {1, BufSize}

\* reqwest StatusCode::is_success: 200..=299
IsSuccess(status) == status >= 200 /\ status <= 299

\* Display of a StatusCode: the code, a space, the canonical reason
StatusDisplay(status) ==
    CASE status = 200 -> <<"200", " ", "OK">>
      [] status = 404 -> <<"404", " ", "Not Found">>
      [] status = 500 -> <<"500", " ", "Internal Server Error">>

\* save_path = save_dir.push(filename), as a lossy string
SavePath == <<"save_dir", "/", "filename">>

(***************************************************************************)
(* The messages of download_file (format! strings; the Chinese prefixes of *)
(* the source are given in English).                                       *)
(***************************************************************************)
MsgNoDownloadDir(e) == <<"cannot get download dir: ", e>>       \* main.rs:139
MsgCreateDir(e)     == <<"create dir failed: ", e>>             \* main.rs:147
MsgBuildClient(e)   == <<"build HTTP client failed: ", e>>      \* main.rs:156
MsgBuildRequest(e)  == <<"build request failed: ", e>>          \* main.rs:165
MsgHttp(status)     == <<"HTTP ">> \o StatusDisplay(status)     \* main.rs:170
MsgCreateFile(e)    == <<"create file failed: ", e>>            \* main.rs:183
MsgReadStream(e)    == <<"read stream failed: ", e>>            \* main.rs:194
MsgWriteFile(e)     == <<"write file failed: ", e>>             \* main.rs:199
MsgRequest(e)       == <<"request failed: ", e>>                \* main.rs:222
MsgDownloadFailed   == <<"download failed">>                    \* main.rs:229

\* main.rs:223  300 * (attempt + 1) as u64
BackoffMs(a) == BackoffUnitMs * (a + 1)

\* a faulty counter: downloaded = n
AddChunkAssign(d, k) == k
\* main.rs:201  downloaded += n as u64
AddChunk(d, k) == d + k

\* a faulty range: 0..=3
LoopContinuesInclusive(a) == a <= MaxAttempts
\* main.rs:160  the range 0..3 of the retry loop
LoopContinues(a) == a < MaxAttempts

(***************************************************************************)
(* download_file                                                           *)
(***************************************************************************)
Return(r) ==
    /\ result' = r
    /\ returns' = returns + 1
    /\ pc' = "done"

DlInit ==
    /\ pc = "setup"
    /\ dir \in {None, Some(<<>>), Some(<<"d">>)}
    /\ urlOk \in BOOLEAN
    /\ attempt = 0
    /\ attempts = 0
    /\ last_err = None
    /\ total = 0
    /\ file \in {[exists |-> FALSE, len |-> 0, prior |-> TRUE],
                 [exists |-> TRUE, len |-> PriorLen, prior |-> TRUE]}
    /\ downloaded = 0
    /\ n = 0
    /\ chunks = 0
    /\ events = <<>>
    /\ slept = <<>>
    /\ result = NoResult
    /\ returns = 0
    /\ seen = <<>>
    /\ readFailed = FALSE
    /\ ioFailedAt = 0
    /\ written = <<>>
    /\ opens = 0
    /\ created = FALSE
    /\ table = EmptyBag
    /\ lastOp = NoOp
    /\ prev = EmptyBag
    /\ cpc = [c \in Callers |-> "idle"]
    /\ cloc = [c \in Callers |-> NoLocal]
    /\ lastWrite = {}

\* main.rs:134-156: save_dir, create_dir_all(parent), Client::builder().build()
SetupOk ==
    /\ pc = "setup"
    /\ pc' = "loop"
    /\ UNCHANGED <<dir, urlOk, written, opens, attempt, attempts, last_err, total, file, downloaded,
                   n, chunks, events, slept, result, returns, seen, readFailed,
                   ioFailedAt>>
    /\ UNCHANGED stVars

\* main.rs:136-139: dir is None or empty and download_dir() fails
SetupNoDownloadDir ==
    /\ pc = "setup"
    /\ (~dir.some \/ dir.v = <<>>)
    /\ Return(Err(MsgNoDownloadDir("unknown path")))
    /\ UNCHANGED <<dir, urlOk, written, opens, attempt, attempts, last_err, total, file, downloaded,
                   n, chunks, events, slept, seen, readFailed, ioFailedAt>>
    /\ UNCHANGED stVars

\* main.rs:145-149: create_dir_all(parent) fails
SetupCreateDirFails ==
    /\ pc = "setup"
    /\ \E e \in IoErrors : Return(Err(MsgCreateDir(e)))
    /\ UNCHANGED <<dir, urlOk, written, opens, attempt, attempts, last_err, total, file, downloaded,
                   n, chunks, events, slept, seen, readFailed, ioFailedAt>>
    /\ UNCHANGED stVars

\* main.rs:152-156: the client cannot be built
SetupClientFails ==
    /\ pc = "setup"
    /\ Return(Err(MsgBuildClient("builder error")))
    /\ UNCHANGED <<dir, urlOk, written, opens, attempt, attempts, last_err, total, file, downloaded,
                   n, chunks, events, slept, seen, readFailed, ioFailedAt>>
    /\ UNCHANGED stVars

\* main.rs:160-165: the loop head and the request; an unparsable url fails build()
LoopBuildRequest ==
    /\ pc = "loop"
    /\ LoopContinues(attempt)
    /\ IF urlOk
         THEN /\ pc' = "execute"
              /\ UNCHANGED <<result, returns>>
         ELSE Return(Err(MsgBuildRequest("builder error")))
    /\ UNCHANGED <<dir, urlOk, written, opens, attempt, attempts, last_err, total, file, downloaded,
                   n, chunks, events, slept, seen, readFailed, ioFailedAt>>
    /\ UNCHANGED stVars

\* a faulty exit: the loop is exhausted and last_err is not looked at
LoopExhaustedGeneric ==
    /\ pc = "loop"
    /\ ~LoopContinues(attempt)
    /\ Return(Err(MsgDownloadFailed))
    /\ UNCHANGED <<dir, urlOk, written, opens, attempt, attempts, last_err, total,
                   file, downloaded, n, chunks, events, slept, seen, readFailed,
                   ioFailedAt>>
    /\ UNCHANGED stVars

\* main.rs:229: the loop is exhausted
LoopExhausted ==
    /\ pc = "loop"
    /\ ~LoopContinues(attempt)
    /\ Return(Err(IF last_err.some THEN last_err.v ELSE MsgDownloadFailed))
    /\ UNCHANGED <<dir, urlOk, written, opens, attempt, attempts, last_err, total, file, downloaded,
                   n, chunks, events, slept, seen, readFailed, ioFailedAt>>
    /\ UNCHANGED stVars

\* main.rs:167, 221-225: client.execute(req) is Err(e)
ExecuteTransportError ==
    /\ pc = "execute"
    /\ \E e \in TransportErrors :
         /\ last_err' = Some(MsgRequest(e))
         /\ seen' = Append(seen, [kind |-> "transport", status |-> 0, text |-> e])
    /\ attempts' = attempts + 1
    /\ slept' = Append(slept, [after |-> attempt + 1, ms |-> BackoffMs(attempt)])
    /\ attempt' = attempt + 1
    /\ pc' = "loop"
    /\ UNCHANGED <<dir, urlOk, written, opens, total, file, downloaded, n, chunks, events, result,
                   returns, readFailed, ioFailedAt>>
    /\ UNCHANGED stVars

\* a faulty order: the destination is created before the status is looked at
ExecuteStatusFailureTruncates ==
    /\ pc = "execute"
    /\ \E s \in Statuses :
         /\ ~IsSuccess(s)
         /\ last_err' = Some(MsgHttp(s))
         /\ seen' = Append(seen, [kind |-> "status", status |-> s, text |-> ""])
    /\ file' = [exists |-> TRUE, len |-> 0, prior |-> FALSE]
    /\ opens' = opens + 1
    /\ attempts' = attempts + 1
    /\ attempt' = attempt + 1
    /\ pc' = "loop"
    /\ UNCHANGED <<dir, urlOk, written, total, downloaded, n, chunks, events, slept,
                   result, returns, readFailed, ioFailedAt>>
    /\ UNCHANGED stVars

\* main.rs:167-172: a response whose status is not a success
ExecuteStatusFailure ==
    /\ pc = "execute"
    /\ \E s \in Statuses :
         /\ ~IsSuccess(s)
         /\ last_err' = Some(MsgHttp(s))
         /\ seen' = Append(seen, [kind |-> "status", status |-> s, text |-> ""])
    /\ attempts' = attempts + 1
    /\ attempt' = attempt + 1
    /\ pc' = "loop"
    /\ UNCHANGED <<dir, urlOk, written, opens, total, file, downloaded, n, chunks, events, slept,
                   result, returns, readFailed, ioFailedAt>>
    /\ UNCHANGED stVars

\* main.rs:167-179: a success status; total is the Content-Length or 0
ExecuteSuccess ==
    /\ pc = "execute"
    /\ \E s \in Statuses, cl \in ContentLengths :
         /\ IsSuccess(s)
         /\ total' = (IF cl.some THEN cl.v ELSE 0)
         /\ seen' = Append(seen, [kind |-> "status", status |-> s, text |-> ""])
    /\ attempts' = attempts + 1
    /\ pc' = "create"
    /\ UNCHANGED <<dir, urlOk, written, opens, attempt, last_err, file, downloaded, n, chunks, events,
                   slept, result, returns, readFailed, ioFailedAt>>
    /\ UNCHANGED stVars

\* main.rs:181-188: File::create(&save_path) truncates; downloaded = 0
CreateFileOk ==
    /\ pc = "create"
    /\ file' = [exists |-> TRUE, len |-> 0, prior |-> FALSE]
    /\ downloaded' = 0
    /\ chunks' = 0
    /\ opens' = opens + 1
    /\ pc' = "read"
    /\ UNCHANGED <<dir, urlOk, written, attempt, attempts, last_err, total, n, events, slept,
                   result, returns, seen, readFailed, ioFailedAt>>
    /\ UNCHANGED stVars

\* a faulty handler: File::create fails and the loop goes on to the next attempt
CreateFileFailsRetry ==
    /\ pc = "create"
    /\ \E e \in IoErrors : last_err' = Some(MsgCreateFile(e))
    /\ ioFailedAt' = attempts
    /\ opens' = opens + 1
    /\ attempt' = attempt + 1
    /\ pc' = "loop"
    /\ UNCHANGED <<dir, urlOk, written, attempts, total, file, downloaded, n, chunks, events,
                   slept, result, returns, seen, readFailed>>
    /\ UNCHANGED stVars

\* main.rs:181-184: File::create fails
CreateFileFails ==
    /\ pc = "create"
    /\ \E e \in IoErrors : Return(Err(MsgCreateFile(e)))
    /\ ioFailedAt' = attempts
    /\ opens' = opens + 1
    /\ UNCHANGED <<dir, urlOk, written, attempt, attempts, last_err, total, file, downloaded,
                   n, chunks, events, slept, seen, readFailed>>
    /\ UNCHANGED stVars

\* main.rs:190-192: resp.read is Ok(n), n > 0
ReadChunk ==
    /\ pc = "read"
    /\ chunks < MaxChunks
    /\ \E k \in ChunkSizes : n' = k
    /\ chunks' = chunks + 1
    /\ pc' = "write"
    /\ UNCHANGED <<dir, urlOk, written, opens, attempt, attempts, last_err, total, file, downloaded,
                   events, slept, result, returns, seen, readFailed, ioFailedAt>>
    /\ UNCHANGED stVars

\* main.rs:191, 219: resp.read is Ok(0): break, return Ok(save_path)
ReadEof ==
    /\ pc = "read"
    /\ Return(Ok(SavePath))
    /\ UNCHANGED <<dir, urlOk, written, opens, attempt, attempts, last_err, total, file, downloaded,
                   n, chunks, events, slept, seen, readFailed, ioFailedAt>>
    /\ UNCHANGED stVars

\* main.rs:193-196, 219: resp.read is Err(e): last_err.insert(..), break, and the
\* statement after the loop returns Ok(save_path)
ReadError ==
    /\ pc = "read"
    /\ \E e \in ReadErrors : last_err' = Some(MsgReadStream(e))
    /\ readFailed' = TRUE
    /\ Return(Ok(SavePath))
    /\ UNCHANGED <<dir, urlOk, written, opens, attempt, attempts, total, file, downloaded, n, chunks,
                   events, slept, seen, ioFailedAt>>
    /\ UNCHANGED stVars

\* main.rs:198-201: file.write_all(&buffer[..n]) succeeds; downloaded += n
WriteChunkOk ==
    /\ pc = "write"
    /\ file' = [file EXCEPT !.len = @ + n]
    /\ downloaded' = AddChunk(downloaded, n)
    /\ written' = Append(written, file.len + n)
    /\ pc' = "emit"
    /\ UNCHANGED <<dir, urlOk, opens, attempt, attempts, last_err, total, n, chunks, events,
                   slept, result, returns, seen, readFailed, ioFailedAt>>
    /\ UNCHANGED stVars

\* main.rs:198-200: write_all fails, having written fewer than n bytes
WriteChunkFails ==
    /\ pc = "write"
    /\ \E k \in {0, n - 1} : file' = [file EXCEPT !.len = @ + k]
    /\ \E e \in IoErrors : Return(Err(MsgWriteFile(e)))
    /\ ioFailedAt' = attempts
    /\ UNCHANGED <<dir, urlOk, written, opens, attempt, attempts, last_err, total, downloaded, n,
                   chunks, events, slept, seen, readFailed>>
    /\ UNCHANGED stVars

\* a faulty emission: app_handle.emit(..)? returns the error of the channel
EmitProgressOrFail ==
    /\ pc = "emit"
    /\ \E ok \in BOOLEAN :
         /\ events' = Append(events, [url |-> "url", path |-> SavePath,
                                      downloaded |-> downloaded, total |-> total,
                                      delivered |-> ok])
         /\ IF ok THEN pc' = "read" /\ UNCHANGED <<result, returns>>
                  ELSE Return(Err(<<"emit failed">>))
    /\ UNCHANGED <<dir, urlOk, written, opens, attempt, attempts, last_err, total,
                   file, downloaded, n, chunks, slept, seen, readFailed, ioFailedAt>>
    /\ UNCHANGED stVars

\* a faulty emission: no event while the total length is unknown
EmitProgressKnownTotal ==
    /\ pc = "emit"
    /\ IF total > 0
         THEN \E ok \in BOOLEAN :
                events' = Append(events, [url |-> "url", path |-> SavePath,
                                          downloaded |-> downloaded, total |-> total,
                                          delivered |-> ok])
         ELSE UNCHANGED events
    /\ pc' = "read"
    /\ UNCHANGED <<dir, urlOk, written, opens, attempt, attempts, last_err, total,
                   file, downloaded, n, chunks, slept, result, returns, seen,
                   readFailed, ioFailedAt>>
    /\ UNCHANGED stVars

\* main.rs:204-215: let _ = app_handle.emit(..): the result is dropped
EmitProgress ==
    /\ pc = "emit"
    /\ \E ok \in BOOLEAN :
         events' = Append(events, [url |-> "url", path |-> SavePath,
                                   downloaded |-> downloaded, total |-> total,
                                   delivered |-> ok])
    /\ pc' = "read"
    /\ UNCHANGED <<dir, urlOk, written, opens, attempt, attempts, last_err, total, file, downloaded,
                   n, chunks, slept, result, returns, seen, readFailed, ioFailedAt>>
    /\ UNCHANGED stVars

DlNext ==
    \/ SetupOk
    \/ SetupNoDownloadDir
    \/ SetupCreateDirFails
    \/ SetupClientFails
    \/ LoopBuildRequest
    \/ LoopExhausted
    \/ ExecuteTransportError
    \/ ExecuteStatusFailure
    \/ ExecuteSuccess
    \/ CreateFileOk
    \/ CreateFileFails
    \/ ReadChunk
    \/ ReadEof
    \/ ReadError
    \/ WriteChunkOk
    \/ WriteChunkFails
    \/ EmitProgress

(***************************************************************************)
(* Text.  A text is a sequence of symbols; a symbol is one character,      *)
(* except that a run of letters (a field name, a word, null/true/false)    *)
(* is kept as one symbol.                                                  *)
(***************************************************************************)
Q == "\""
BS == "\\"
LF == "\n"
APOS == "'"

DigitSyms == <<"0", "1", "2", "3", "4", "5", "6", "7", "8", "9">>
IsDigit(c) == \E d \in 1..10 : DigitSyms[d] = c
DigitValue(c) == (CHOOSE d \in 1..10 : DigitSyms[d] = c) - 1

\* the byte of a symbol that may occur in a created_at text (ASCII)
Byte(c) == IF IsDigit(c) THEN 48 + DigitValue(c)
           ELSE CASE c = "-" -> 45 [] c = ":" -> 58 [] c = "T" -> 84
                  [] c = "Z" -> 90 [] OTHER -> 63

\* SQLite's BINARY collation on TEXT: memcmp, the shorter text first on a tie
RECURSIVE TextLess(_, _)
TextLess(a, b) ==
    IF a = <<>> THEN b # <<>>
    ELSE IF b = <<>> THEN FALSE
    ELSE IF Byte(Head(a)) # Byte(Head(b)) THEN Byte(Head(a)) < Byte(Head(b))
    ELSE TextLess(Tail(a), Tail(b))

(***************************************************************************)
(* serde_json: the JSON text of a value.  A JSON value is                  *)
(* [t |-> "null" | "bool" | "num" | "str" | "arr" | "obj", v |-> ..];      *)
(* the v of an object is a sequence of members [k |-> text, val |-> value] *)
(***************************************************************************)
JNull == [t |-> "null", v |-> <<>>]
JBool(b) == [t |-> "bool", v |-> b]
JNum(k) == [t |-> "num", v |-> k]
JStr(s) == [t |-> "str", v |-> s]
JArr(a) == [t |-> "arr", v |-> a]
JObj(m) == [t |-> "obj", v |-> m]

\* itoa: the decimal digits of an integer
RECURSIVE Digits(_)
Digits(k) == IF k < 10 THEN <<DigitSyms[k + 1]>>
             ELSE Digits(k \div 10) \o <<DigitSyms[(k % 10) + 1]>>
WriteInt(k) == IF k < 0 THEN <<"-">> \o Digits(-k) ELSE Digits(k)

\* a faulty writer: no character is escaped
EscapeSymRaw(c) == <<c>>
\* serde_json format_escaped_str: the escape of one character
EscapeSym(c) ==
    CASE c = Q -> <<BS, Q>>
      [] c = BS -> <<BS, BS>>
      [] c = LF -> <<BS, "n">>
      [] OTHER -> <<c>>

RECURSIVE WriteChars(_)
WriteChars(s) == IF s = <<>> THEN <<>> ELSE EscapeSym(Head(s)) \o WriteChars(Tail(s))
WriteString(s) == <<Q>> \o WriteChars(s) \o <<Q>>

RECURSIVE WriteJson(_), WriteElems(_), WriteMembers(_)
WriteJson(j) ==
    CASE j.t = "null" -> <<"null">>
      [] j.t = "bool" -> IF j.v THEN <<"true">> ELSE <<"false">>
      [] j.t = "num" -> WriteInt(j.v)
      [] j.t = "str" -> WriteString(j.v)
      [] j.t = "arr" -> <<"[">> \o WriteElems(j.v) \o <<"]">>
      [] j.t = "obj" -> <<"{">> \o WriteMembers(j.v) \o <<"}">>
WriteElems(a) ==
    IF a = <<>> THEN <<>>
    ELSE WriteJson(Head(a)) \o (IF Len(a) > 1 THEN <<",">> ELSE <<>>) \o WriteElems(Tail(a))
WriteMembers(m) ==
    IF m = <<>> THEN <<>>
    ELSE WriteString(Head(m).k) \o <<":">> \o WriteJson(Head(m).val)
         \o (IF Len(m) > 1 THEN <<",">> ELSE <<>>) \o WriteMembers(Tail(m))

(***************************************************************************)
(* serde_json: parsing a JSON text.  A parse is                            *)
(* [ok |-> BOOLEAN, v |-> what was read, next |-> index after it].         *)
(***************************************************************************)
ParseFail == [ok |-> FALSE, v |-> <<>>, next |-> 0]
Parsed(x, i) == [ok |-> TRUE, v |-> x, next |-> i]

RECURSIVE SkipWs(_, _)
SkipWs(s, i) == IF i <= Len(s) /\ s[i] = " " THEN SkipWs(s, i + 1) ELSE i

\* the characters of a string, from the one after the opening quote
RECURSIVE ParseChars(_, _, _)
ParseChars(s, i, acc) ==
    IF i > Len(s) THEN ParseFail
    ELSE IF s[i] = Q THEN Parsed(acc, i + 1)
    ELSE IF s[i] = BS THEN
        IF i + 1 > Len(s) THEN ParseFail
        ELSE IF s[i + 1] \in {Q, BS, "/"} THEN ParseChars(s, i + 2, Append(acc, s[i + 1]))
        ELSE IF s[i + 1] = "n" THEN ParseChars(s, i + 2, Append(acc, LF))
        ELSE ParseFail
    ELSE IF s[i] = LF THEN ParseFail
    ELSE ParseChars(s, i + 1, Append(acc, s[i]))

\* the digits of a number, from its first digit
RECURSIVE ParseDigits(_, _, _)
ParseDigits(s, i, acc) ==
    IF i <= Len(s) /\ IsDigit(s[i])
      THEN ParseDigits(s, i + 1, 10 * acc + DigitValue(s[i]))
      ELSE Parsed(acc, i)

\* an integer: no leading zero; fractions and exponents are not modelled
ParseNumber(s, i) ==
    LET neg == s[i] = "-"
        j == IF neg THEN i + 1 ELSE i
    IN  IF j > Len(s) \/ ~IsDigit(s[j]) THEN ParseFail
        ELSE IF s[j] = "0" /\ j + 1 <= Len(s) /\ IsDigit(s[j + 1]) THEN ParseFail
        ELSE LET d == ParseDigits(s, j, 0)
             IN  Parsed(JNum(IF neg THEN -d.v ELSE d.v), d.next)

RECURSIVE ParseValue(_, _), ParseElems(_, _, _), ParseMembers(_, _, _)
ParseValue(s, i0) ==
    LET i == SkipWs(s, i0)
    IN  IF i > Len(s) THEN ParseFail
        ELSE CASE s[i] = "null" -> Parsed(JNull, i + 1)
               [] s[i] = "true" -> Parsed(JBool(TRUE), i + 1)
               [] s[i] = "false" -> Parsed(JBool(FALSE), i + 1)
               [] s[i] = Q ->
                    LET p == ParseChars(s, i + 1, <<>>)
                    IN  IF p.ok THEN Parsed(JStr(p.v), p.next) ELSE ParseFail
               [] s[i] = "[" ->
                    LET j == SkipWs(s, i + 1)
                    IN  IF j <= Len(s) /\ s[j] = "]" THEN Parsed(JArr(<<>>), j + 1)
                        ELSE ParseElems(s, j, <<>>)
               [] s[i] = "{" ->
                    LET j == SkipWs(s, i + 1)
                    IN  IF j <= Len(s) /\ s[j] = "}" THEN Parsed(JObj(<<>>), j + 1)
                        ELSE ParseMembers(s, j, <<>>)
               [] s[i] = "-" \/ IsDigit(s[i]) -> ParseNumber(s, i)
               [] OTHER -> ParseFail
ParseElems(s, i, acc) ==
    LET p == ParseValue(s, i)
    IN  IF ~p.ok THEN ParseFail
        ELSE LET j == SkipWs(s, p.next)
             IN  IF j > Len(s) THEN ParseFail
                 ELSE IF s[j] = "," THEN ParseElems(s, j + 1, Append(acc, p.v))
                 ELSE IF s[j] = "]" THEN Parsed(JArr(Append(acc, p.v)), j + 1)
                 ELSE ParseFail
ParseMembers(s, i0, acc) ==
    LET i == SkipWs(s, i0)
    IN  IF i > Len(s) \/ s[i] # Q THEN ParseFail
        ELSE LET k == ParseChars(s, i + 1, <<>>)
             IN  IF ~k.ok THEN ParseFail
                 ELSE LET c == SkipWs(s, k.next)
                      IN  IF c > Len(s) \/ s[c] # ":" THEN ParseFail
                          ELSE LET p == ParseValue(s, c + 1)
                               IN  IF ~p.ok THEN ParseFail
                                   ELSE LET j == SkipWs(s, p.next)
                                            m == Append(acc, [k |-> k.v, val |-> p.v])
                                        IN  IF j > Len(s) THEN ParseFail
                                            ELSE IF s[j] = "," THEN ParseMembers(s, j + 1, m)
                                            ELSE IF s[j] = "}" THEN Parsed(JObj(m), j + 1)
                                            ELSE ParseFail

\* serde_json::from_str: one value, then only white space
ParseJson(s) ==
    LET p == ParseValue(s, 1)
    IN  IF p.ok /\ SkipWs(s, p.next) = Len(s) + 1 THEN p ELSE ParseFail

(***************************************************************************)
(* serde: the derived Serialize/Deserialize of the structs of main.rs.     *)
(* A type is [c |-> "String" | "i32" | "bool" | "Value"],                  *)
(* [c |-> "Option" | "Vec", of |-> type] or [c |-> "struct", of |-> name]. *)
(* A struct is a record over its Rust field names; its schema gives, per   *)
(* field and in declaration order, the camelCase key and the type.         *)
(***************************************************************************)
TString == [c |-> "String"]
TI32 == [c |-> "i32"]
TBool == [c |-> "bool"]
TValue == [c |-> "Value"]
TOption(ty) == [c |-> "Option", of |-> ty]
TVec(ty) == [c |-> "Vec", of |-> ty]
TStruct(name) == [c |-> "struct", of |-> name]

Fld(field, key, ty) == [field |-> field, key |-> <<key>>, ty |-> ty]

\* main.rs:17-31
BatchTaskConfigSchema == <<
    Fld("model", "model", TString),
    Fld("model_type", "modelType", TString),
    Fld("concurrent_limit", "concurrentLimit", TI32),
    Fld("retry_attempts", "retryAttempts", TI32),
    Fld("retry_delay", "retryDelay", TI32),
    Fld("auto_download", "autoDownload", TBool),
    Fld("aspect_ratio", "aspectRatio", TString),
    Fld("size", "size", TString),
    Fld("quality", "quality", TString),
    Fld("generate_count", "generateCount", TOption(TI32)),
    Fld("api_timeout_ms", "apiTimeoutMs", TOption(TI32)) >>

\* main.rs:61-70
DebugLogSchema == <<
    Fld("id", "id", TString),
    Fld("task_item_id", "taskItemId", TString),
    Fld("timestamp", "timestamp", TString),
    Fld("type", "type", TString),
    Fld("data", "data", TValue),
    Fld("duration", "duration", TOption(TI32)) >>

\* main.rs:33-47
TaskItemSchema == <<
    Fld("id", "id", TString),
    Fld("prompt", "prompt", TString),
    Fld("source_image", "sourceImage", TOption(TString)),
    Fld("mask", "mask", TOption(TString)),
    Fld("priority", "priority", TI32),
    Fld("status", "status", TString),
    Fld("attempt_count", "attemptCount", TI32),
    Fld("created_at", "createdAt", TString),
    Fld("processed_at", "processedAt", TOption(TString)),
    Fld("error", "error", TOption(TString)),
    Fld("debug_logs", "debugLogs", TOption(TVec(TStruct("DebugLog")))) >>

\* main.rs:49-59
TaskResultSchema == <<
    Fld("id", "id", TString),
    Fld("task_item_id", "taskItemId", TString),
    Fld("image_url", "imageUrl", TString),
    Fld("local_path", "localPath", TOption(TString)),
    Fld("downloaded", "downloaded", TBool),
    Fld("created_at", "createdAt", TString),
    Fld("duration_ms", "durationMs", TOption(TI32)) >>

SchemaOf(name) ==
    CASE name = "BatchTaskConfig" -> BatchTaskConfigSchema
      [] name = "DebugLog" -> DebugLogSchema
      [] name = "TaskItem" -> TaskItemSchema
      [] name = "TaskResult" -> TaskResultSchema

\* the range of i32
I32Min == -2147483647 - 1
I32Max == 2147483647

\* Serialize: the JSON value of x at type ty
RECURSIVE ToJson(_, _)
ToJson(x, ty) ==
    CASE ty.c = "String" -> JStr(x)
      [] ty.c = "i32" -> JNum(x)
      [] ty.c = "bool" -> JBool(x)
      [] ty.c = "Value" -> x
      [] ty.c = "Option" -> IF x.some THEN ToJson(x.v, ty.of) ELSE JNull
      [] ty.c = "Vec" -> JArr([i \in 1..Len(x) |-> ToJson(x[i], ty.of)])
      [] ty.c = "struct" ->
           LET S == SchemaOf(ty.of)
           IN  JObj([i \in 1..Len(S) |->
                        [k |-> S[i].key, val |-> ToJson(x[S[i].field], S[i].ty)]])

\* serde_json::to_string
ToJsonString(x, ty) == WriteJson(ToJson(x, ty))

Decoded(x) == [ok |-> TRUE, v |-> x]
DecodeFail == [ok |-> FALSE, v |-> <<>>]

\* the indices of the members of object j whose key is key
MembersAt(j, key) == {i \in 1..Len(j.v) : j.v[i].k = key}

\* Deserialize: the value of type ty a JSON value stands for.  In a struct an
\* unknown key is ignored, a repeated key is an error and a missing key is an
\* error unless the field is an Option.  (A Value is kept as read: the payloads
\* of this model have at most one member per object, which is what a
\* serde_json::Map holds.)
RECURSIVE FromJson(_, _)
FromJson(j, ty) ==
    CASE ty.c = "String" -> IF j.t = "str" THEN Decoded(j.v) ELSE DecodeFail
      [] ty.c = "i32" ->
           IF j.t = "num" /\ j.v >= I32Min /\ j.v <= I32Max THEN Decoded(j.v)
           ELSE DecodeFail
      [] ty.c = "bool" -> IF j.t = "bool" THEN Decoded(j.v) ELSE DecodeFail
      [] ty.c = "Value" -> Decoded(j)
      [] ty.c = "Option" ->
           IF j.t = "null" THEN Decoded(None)
           ELSE LET d == FromJson(j, ty.of)
                IN  IF d.ok THEN Decoded(Some(d.v)) ELSE DecodeFail
      [] ty.c = "Vec" ->
           IF j.t # "arr" THEN DecodeFail
           ELSE LET d == [i \in 1..Len(j.v) |-> FromJson(j.v[i], ty.of)]
                IN  IF \A i \in 1..Len(j.v) : d[i].ok
                      THEN Decoded([i \in 1..Len(j.v) |-> d[i].v])
                      ELSE DecodeFail
      [] ty.c = "struct" ->
           IF j.t # "obj" THEN DecodeFail
           ELSE LET S == SchemaOf(ty.of)
                    d == [i \in 1..Len(S) |->
                            LET at == MembersAt(j, S[i].key)
                            IN  IF at = {} THEN
                                    IF S[i].ty.c = "Option" THEN Decoded(None)
                                    ELSE DecodeFail
                                ELSE IF Cardinality(at) > 1 THEN DecodeFail
                                ELSE FromJson(j.v[CHOOSE m \in at : TRUE].val, S[i].ty)]
                IN  IF \A i \in 1..Len(S) : d[i].ok
                      THEN Decoded([f \in {S[i].field : i \in 1..Len(S)} |->
                                      d[CHOOSE i \in 1..Len(S) : S[i].field = f].v])
                      ELSE DecodeFail

\* serde_json::from_str
FromJsonString(s, ty) ==
    LET p == ParseJson(s)
    IN  IF p.ok THEN FromJson(p.v, ty) ELSE DecodeFail

(***************************************************************************)
(* The batch tasks a caller saves.  There are NumIds task ids; task i is   *)
(* created at time 7 + i (a fixed-width timestamp, as the caller's ISO     *)
(* 8601 texts are); tasks 2 and 3 carry items, debug logs and results.     *)
(***************************************************************************)
\* number of task ids
NumIds == 5
\* largest max_tasks_to_keep passed to cleanup_old_tasks
MaxKeep == 5
\* main.rs:309  max_tasks_to_keep.unwrap_or(100)
DefaultMaxKeep == 100

TwoDigits(k) == <<DigitSyms[(k \div 10) + 1], DigitSyms[(k % 10) + 1]>>
TimeText(i) == TwoDigits(7 + i)
IdText(i) == IF i % 2 = 0 THEN <<"it", APOS, "s">> \o Digits(i) ELSE <<"t">> \o Digits(i)

ConfigA == [model |-> <<"gpt">>, model_type |-> <<"openai">>, concurrent_limit |-> 3,
            retry_attempts |-> 2, retry_delay |-> 1000, auto_download |-> TRUE,
            aspect_ratio |-> <<"1", ":", "1">>, size |-> <<"auto">>,
            quality |-> <<"hd">>, generate_count |-> None,
            api_timeout_ms |-> Some(60000)]
ConfigB == [ConfigA EXCEPT !.model = <<"say", " ", Q, "hi", Q>>, !.auto_download = FALSE,
                           !.generate_count = Some(-1), !.api_timeout_ms = None]

LogA == [id |-> <<"log">>, task_item_id |-> <<"item">>, timestamp |-> TimeText(1),
         type |-> <<"request">>,
         data |-> JObj(<<[k |-> <<"body">>,
                          val |-> JArr(<<JStr(<<"a", BS, "b">>), JNum(7), JNull,
                                         JBool(FALSE)>>)]>>),
         duration |-> Some(12)]
LogB == [LogA EXCEPT !.type = <<"error">>, !.data = JStr(<<LF>>), !.duration = None]

ItemA == [id |-> <<"item">>, prompt |-> <<"a", " ", Q, "cat", Q, LF, BS>>,
          source_image |-> None, mask |-> Some(<<"mask">>), priority |-> 0,
          status |-> <<"pending">>, attempt_count |-> 1, created_at |-> TimeText(1),
          processed_at |-> None, error |-> Some(<<>>),
          debug_logs |-> Some(<<LogA, LogB>>)]
ItemB == [ItemA EXCEPT !.id = <<"other">>, !.prompt = <<"dog">>, !.priority = -5,
                       !.debug_logs = None]
ItemC == [ItemB EXCEPT !.debug_logs = Some(<<>>)]

ResultA == [id |-> <<"res">>, task_item_id |-> <<"item">>,
            image_url |-> <<"http", ":", "/", "/", "host", "/", "x">>,
            local_path |-> Some(<<"C", ":", BS, "img">>), downloaded |-> TRUE,
            created_at |-> TimeText(2), duration_ms |-> None]
ResultB == [ResultA EXCEPT !.id = <<"res", "2">>, !.local_path = None,
                           !.downloaded = FALSE, !.duration_ms = Some(1500)]

Task(i) ==
    [id |-> IdText(i), name |-> <<"batch", " ">> \o Digits(i), type |-> <<"text">>,
     status |-> <<"pending">>, progress |-> 0, total_items |-> (i - 1) % 3,
     completed_items |-> 0, failed_items |-> 0, created_at |-> TimeText(i),
     started_at |-> None, completed_at |-> None,
     config |-> IF i % 2 = 0 THEN ConfigB ELSE ConfigA,
     items |-> CASE i = 2 -> <<ItemA, ItemB>>
                 [] i = 3 -> <<ItemC>>
                 [] OTHER -> <<>>,
     results |-> CASE i = 2 -> <<ResultA>>
                   [] i = 3 -> <<ResultB, ResultA>>
                   [] OTHER -> <<>>,
     error |-> None]

\* task 1 saved again later in its life: the same id, other contents, and a
\* creation time equal to that of task 2
TaskLater ==
    [Task(1) EXCEPT !.status = <<"failed">>, !.progress = 100, !.failed_items = 1,
                    !.created_at = TimeText(2), !.started_at = Some(TimeText(3)),
                    !.completed_at = Some(TimeText(4)), !.items = <<ItemB>>,
                    !.error = Some(<<"HTTP", " ", "5", "0", "0">>)]

Ids == {IdText(i) : i \in 1..NumIds}
TaskPool == {Task(i) : i \in 1..NumIds} \cup {TaskLater}

(***************************************************************************)
(* SimpleDatabase: the table batch_tasks.  The table is a bag of rows; a   *)
(* row is a record over the column names.  A TEXT column that may be NULL  *)
(* holds an Option.                                                        *)
(***************************************************************************)
TConfig == TStruct("BatchTaskConfig")
TItems == TVec(TStruct("TaskItem"))
TResults == TVec(TStruct("TaskResult"))

\* simple_database.rs:100-130: the row save_batch_task binds for a task
RowOf(task) ==
    [id |-> task.id, name |-> task.name, type |-> task.type, status |-> task.status,
     progress |-> task.progress, total_items |-> task.total_items,
     completed_items |-> task.completed_items, failed_items |-> task.failed_items,
     created_at |-> task.created_at, started_at |-> task.started_at,
     completed_at |-> task.completed_at,
     config_json |-> ToJsonString(task.config, TConfig),
     items_json |-> ToJsonString(task.items, TItems),
     results_json |-> ToJsonString(task.results, TResults),
     error_text |-> task.error]

\* simple_database.rs:61-85: the BatchTask query_map builds from a row
TaskOfRow(row) ==
    LET c == FromJsonString(row.config_json, TConfig)
        i == FromJsonString(row.items_json, TItems)
        r == FromJsonString(row.results_json, TResults)
    IN  IF c.ok /\ i.ok /\ r.ok
          THEN Decoded([id |-> row.id, name |-> row.name, type |-> row.type,
                        status |-> row.status, progress |-> row.progress,
                        total_items |-> row.total_items,
                        completed_items |-> row.completed_items,
                        failed_items |-> row.failed_items,
                        created_at |-> row.created_at, started_at |-> row.started_at,
                        completed_at |-> row.completed_at, config |-> c.v,
                        items |-> i.v, results |-> r.v, error |-> row.error_text])
          ELSE DecodeFail

\* the columns get_all_batch_tasks parses as JSON
BlobColumns == {"config_json", "items_json", "results_json"}

\* a row whose text in one JSON column is malformed: a config cut short, an
\* object where the array of items is expected, a result without its fields
Corrupt(row, col) ==
    CASE col = "config_json" ->
           [row EXCEPT !.config_json = SubSeq(@, 1, Len(@) - 1)]
      [] col = "items_json" ->
           [row EXCEPT !.items_json = <<"{", "}">>]
      [] col = "results_json" ->
           [row EXCEPT !.results_json = <<"[", "{", "}", "]">>]

\* RowOf and TaskOfRow on the rows this model stores, computed once
RowOfTask == [task \in TaskPool |-> RowOf(task)]
CorruptRows == {Corrupt(RowOfTask[task], col) : task \in TaskPool, col \in BlobColumns}
StoredRows == {RowOfTask[task] : task \in TaskPool} \cup CorruptRows
TaskOfStoredRow == [row \in StoredRows |-> TaskOfRow(row)]

\* SELECT COUNT(*) FROM batch_tasks
CountRows(tbl) == BagCardinality(tbl)

HasId(tbl, id) == \E r \in BagToSet(tbl) : r.id = id

\* a faulty statement: DELETE FROM batch_tasks, without the WHERE
DeleteAllRows(tbl, ids) == EmptyBag
\* DELETE FROM batch_tasks WHERE id IN ids
DeleteRows(tbl, ids) ==
    LET keep == {r \in BagToSet(tbl) : r.id \notin ids}
    IN  [r \in keep |-> tbl[r]]

\* a faulty statement: an INSERT that replaces nothing
InsertOnly(tbl, row) == tbl (+) SetToBag({row})
\* a faulty statement: INSERT OR IGNORE keeps the row already stored
InsertOrIgnore(tbl, row) == IF HasId(tbl, row.id) THEN tbl ELSE InsertOnly(tbl, row)
\* INSERT OR REPLACE on the PRIMARY KEY id: the rows that conflict are deleted
InsertOrReplace(tbl, row) == DeleteRows(tbl, {row.id}) (+) SetToBag({row})

\* a faulty order: ORDER BY created_at ASC
OrderByCreatedAtAsc(a, b) == ~TextLess(b.created_at, a.created_at)
\* ORDER BY created_at DESC: whether row a may come before row b
OrderByCreatedAtDesc(a, b) == ~TextLess(a.created_at, b.created_at)

\* the orders in which a query ORDER BY created_at DESC can deliver the rows:
\* rows with equal created_at come in any order
RECURSIVE Ordered(_)
Ordered(tbl) ==
    IF BagToSet(tbl) = {} THEN {<<>>}
    ELSE UNION { { <<m>> \o rest : rest \in Ordered(tbl (-) SetToBag({m})) } :
                 m \in {r \in BagToSet(tbl) :
                          \A q \in BagToSet(tbl) : OrderByCreatedAtDesc(r, q)} }

(***************************************************************************)
(* The messages of the store commands (the Chinese prefixes in English).   *)
(***************************************************************************)
MsgGetTasks(e) == <<"get tasks failed: ", "read task failed: ", e>>  \* main.rs:261
Unit == <<>>

\* a faulty loop: task_iter.filter_map(Result::ok), the rows that cannot be
\* turned into a BatchTask are left out
GetAllOfSkipping(order) ==
    LET d == [i \in 1..Len(order) |-> TaskOfStoredRow[order[i]]]
        good == SelectSeq(d, LAMBDA x : x.ok)
    IN  Ok([i \in 1..Len(good) |-> good[i].v])
\* simple_database.rs:88-93: the rows in order, each turned into a BatchTask;
\* the first row that cannot be turned ends the call with an error
GetAllOf(order) ==
    LET d == [i \in 1..Len(order) |-> TaskOfStoredRow[order[i]]]
    IN  IF \A i \in 1..Len(order) : d[i].ok
          THEN Ok([i \in 1..Len(order) |-> d[i].v])
          ELSE Err(MsgGetTasks("conversion failure"))

\* what get_all_batch_tasks can return on a table
GetAllResults(tbl) == {GetAllOf(order) : order \in Ordered(tbl)}

\* a faulty offset: OFFSET max_tasks_to_keep + 1
SelectedOneLess(order, max) ==
    LET off == IF max < 0 THEN 0 ELSE max
    IN  [i \in 1..(IF Len(order) > off + 1 THEN Len(order) - off - 1 ELSE 0) |->
            order[off + 1 + i].id]
\* simple_database.rs:176-183: LIMIT -1 OFFSET ?: the ids after the first
\* max_tasks_to_keep rows; SQLite reads a negative OFFSET as 0
Selected(order, max) ==
    LET off == IF max < 0 THEN 0 ELSE max
    IN  [i \in 1..(IF Len(order) > off THEN Len(order) - off ELSE 0) |->
            order[off + i].id]

\* simple_database.rs:201: format!("'{}'", id.replace("'", "''"))
RECURSIVE DoubleApos(_)
DoubleApos(s) ==
    IF s = <<>> THEN <<>>
    ELSE (IF Head(s) = APOS THEN <<APOS, APOS>> ELSE <<Head(s)>>) \o DoubleApos(Tail(s))
SqlLiteral(id) == <<APOS>> \o DoubleApos(id) \o <<APOS>>

\* simple_database.rs:196-202: the literals joined by ", "
RECURSIVE ParamsStr(_)
ParamsStr(task_ids) ==
    IF task_ids = <<>> THEN <<>>
    ELSE SqlLiteral(Head(task_ids))
         \o (IF Len(task_ids) > 1 THEN <<",", " ">> ELSE <<>>)
         \o ParamsStr(Tail(task_ids))

\* SQLite reading the string literals of an IN list: '' inside a literal is
\* one apostrophe; the result is the set of texts named
RECURSIVE SqlReadLiteral(_, _, _), SqlReadList(_, _, _)
SqlReadLiteral(s, i, acc) ==
    IF i > Len(s) THEN ParseFail
    ELSE IF s[i] = APOS THEN
        IF i + 1 <= Len(s) /\ s[i + 1] = APOS
          THEN SqlReadLiteral(s, i + 2, Append(acc, APOS))
          ELSE Parsed(acc, i + 1)
    ELSE SqlReadLiteral(s, i + 1, Append(acc, s[i]))
SqlReadList(s, i0, acc) ==
    LET i == SkipWs(s, i0)
    IN  IF i > Len(s) THEN Parsed(acc, i)
        ELSE IF s[i] # APOS THEN ParseFail
        ELSE LET p == SqlReadLiteral(s, i + 1, <<>>)
             IN  IF ~p.ok THEN ParseFail
                 ELSE LET j == SkipWs(s, p.next)
                      IN  IF j > Len(s) THEN Parsed(acc \cup {p.v}, j)
                          ELSE IF s[j] = "," THEN SqlReadList(s, j + 1, acc \cup {p.v})
                          ELSE ParseFail

\* simple_database.rs:204-207: DELETE FROM batch_tasks WHERE id IN (params_str)
DeleteIn(tbl, params_str) ==
    LET p == SqlReadList(params_str, 1, {})
    IN  IF p.ok THEN Ok(DeleteRows(tbl, p.v)) ELSE Err(<<"delete old tasks failed: ">>)

(***************************************************************************)
(* The store commands of main.rs, issued one at a time by one caller.      *)
(* Each runs init_db first.  (The SQLite engine is taken to work: opening  *)
(* the file, preparing and executing a statement fail only as the          *)
(* statements themselves say.)                                             *)
(***************************************************************************)
\* a new database, and no download invoked
StInit ==
    /\ created = FALSE
    /\ table = EmptyBag
    /\ lastOp = NoOp
    /\ prev = EmptyBag
    /\ pc = "idle"
    /\ dir = None
    /\ urlOk = TRUE
    /\ attempt = 0
    /\ attempts = 0
    /\ last_err = None
    /\ total = 0
    /\ file = [exists |-> FALSE, len |-> 0, prior |-> TRUE]
    /\ downloaded = 0
    /\ n = 0
    /\ chunks = 0
    /\ events = <<>>
    /\ slept = <<>>
    /\ result = NoResult
    /\ returns = 0
    /\ seen = <<>>
    /\ readFailed = FALSE
    /\ ioFailedAt = 0
    /\ written = <<>>
    /\ opens = 0
    /\ cpc = [c \in Callers |-> "idle"]
    /\ cloc = [c \in Callers |-> NoLocal]
    /\ lastWrite = {}

\* simple_database.rs:24-51: CREATE TABLE IF NOT EXISTS batch_tasks
InitDb == created' = TRUE

\* main.rs:254-262, simple_database.rs:54-94
GetBatchTasks ==
    /\ InitDb
    /\ \E r \in GetAllResults(table) : lastOp' = Op("getAll", <<>>, r)
    /\ prev' = table
    /\ UNCHANGED table
    /\ UNCHANGED dlVars
    /\ UNCHANGED ccVars

\* main.rs:264-272, simple_database.rs:97-134
SaveBatchTask ==
    /\ InitDb
    /\ \E task \in TaskPool :
         /\ table' = InsertOrReplace(table, RowOfTask[task])
         /\ lastOp' = [name |-> "save", arg |-> task, ret |-> Ok(Unit),
                       again |-> (lastOp.name = "save" /\ lastOp.arg = task)]
    /\ prev' = table
    /\ UNCHANGED dlVars
    /\ UNCHANGED ccVars

\* main.rs:274-282, simple_database.rs:137-146
DeleteBatchTask ==
    /\ InitDb
    /\ \E task_id \in Ids :
         /\ table' = DeleteRows(table, {task_id})
         /\ lastOp' = Op("delete", task_id, Ok(Unit))
    /\ prev' = table
    /\ UNCHANGED dlVars
    /\ UNCHANGED ccVars

\* main.rs:284-292, simple_database.rs:149-156
ClearBatchTasks ==
    /\ InitDb
    /\ table' = EmptyBag
    /\ lastOp' = Op("clear", <<>>, Ok(Unit))
    /\ prev' = table
    /\ UNCHANGED dlVars
    /\ UNCHANGED ccVars

\* main.rs:294-302, simple_database.rs:159-169
GetTaskCount ==
    /\ InitDb
    /\ lastOp' = Op("count", <<>>, Ok(CountRows(table)))
    /\ prev' = table
    /\ UNCHANGED table
    /\ UNCHANGED dlVars
    /\ UNCHANGED ccVars

\* main.rs:304-314, simple_database.rs:172-211
CleanupOldTasks ==
    /\ InitDb
    /\ \E max_tasks_to_keep \in {None} \cup {Some(k) : k \in -1..MaxKeep} :
         LET max_keep == IF max_tasks_to_keep.some THEN max_tasks_to_keep.v
                         ELSE DefaultMaxKeep
         IN  \E order \in Ordered(table) :
               LET task_ids == Selected(order, max_keep)
                   count == Len(task_ids)
                   del == DeleteIn(table, ParamsStr(task_ids))
               IN  /\ table' = (IF count > 0 /\ del.tag = "Ok" THEN del.v ELSE table)
                   /\ lastOp' = Op("cleanup", max_tasks_to_keep,
                                   IF count > 0 /\ del.tag = "Err"
                                     THEN Err(<<"cleanup failed: ">> \o del.v)
                                     ELSE Ok(count))
    /\ prev' = table
    /\ UNCHANGED dlVars
    /\ UNCHANGED ccVars

StNext ==
    \/ GetBatchTasks
    \/ SaveBatchTask
    \/ DeleteBatchTask
    \/ ClearBatchTasks
    \/ GetTaskCount
    \/ CleanupOldTasks

\* a writer other than these commands (batch_tasks.db is an ordinary file
\* that any SQLite client opens, and the columns are unconstrained TEXT)
\* leaves malformed JSON in one column of a stored row.  One malformed row
\* at a time: get_all_batch_tasks fails at the first one it meets.
ForeignWrite ==
    /\ created
    /\ BagToSet(table) \cap CorruptRows = {}
    /\ \E row \in BagToSet(table) \ CorruptRows, col \in BlobColumns :
         /\ table' = (table (-) SetToBag({row})) (+) SetToBag({Corrupt(row, col)})
         /\ lastOp' = Op("foreign", <<row.id, col>>, NoResult)
    /\ prev' = table
    /\ UNCHANGED created
    /\ UNCHANGED dlVars
    /\ UNCHANGED ccVars

CorruptNext ==
    \/ GetBatchTasks
    \/ SaveBatchTask
    \/ DeleteBatchTask
    \/ ClearBatchTasks
    \/ GetTaskCount
    \/ CleanupOldTasks
    \/ ForeignWrite

(***************************************************************************)
(* The store commands invoked concurrently.  Tauri runs each async command *)
(* as a task of its own and every command opens its own connection, so the *)
(* commands of two callers interleave statement by statement; SQLite       *)
(* executes one statement atomically.  save_batch_task serializes and then *)
(* executes one INSERT OR REPLACE; cleanup_old_tasks executes a SELECT and *)
(* then a DELETE, outside any transaction.  The callers use the first      *)
(* ConcIds task ids.                                                       *)
(***************************************************************************)
ConcIds == 2
ConcIdSet == {IdText(i) : i \in 1..ConcIds}
ConcTasks == {task \in TaskPool : task.id \in ConcIdSet}

\* main.rs:267, simple_database.rs:98-105: init_db, then the three JSON texts
SaveBegin ==
    /\ \E c \in Callers, task \in ConcTasks :
         /\ cpc[c] = "idle"
         /\ cpc' = [cpc EXCEPT ![c] = "insert"]
         /\ cloc' = [cloc EXCEPT ![c] = [NoLocal EXCEPT !.row = RowOfTask[task]]]
    /\ InitDb
    /\ UNCHANGED <<table, lastOp, prev, lastWrite>>
    /\ UNCHANGED dlVars

\* simple_database.rs:107-133: INSERT OR REPLACE executes, Ok(())
SaveExecute ==
    /\ \E c \in Callers :
         /\ cpc[c] = "insert"
         /\ table' = InsertOrReplace(table, cloc[c].row)
         /\ lastWrite' = {r \in lastWrite : r.id # cloc[c].row.id} \cup {cloc[c].row}
         /\ cpc' = [cpc EXCEPT ![c] = "idle"]
         /\ cloc' = [cloc EXCEPT ![c] = [NoLocal EXCEPT !.ret = Ok(Unit)]]
    /\ UNCHANGED <<created, lastOp, prev>>
    /\ UNCHANGED dlVars

\* main.rs:277, simple_database.rs:137-146: DELETE .. WHERE id = ?
ConcDelete ==
    /\ \E c \in Callers, task_id \in ConcIdSet :
         /\ cpc[c] = "idle"
         /\ table' = DeleteRows(table, {task_id})
         /\ lastWrite' = {r \in lastWrite : r.id # task_id}
         /\ cloc' = [cloc EXCEPT ![c] = [NoLocal EXCEPT !.ret = Ok(Unit)]]
    /\ InitDb
    /\ UNCHANGED <<cpc, lastOp, prev>>
    /\ UNCHANGED dlVars

\* main.rs:287, simple_database.rs:149-156: DELETE FROM batch_tasks
ConcClear ==
    /\ \E c \in Callers :
         /\ cpc[c] = "idle"
         /\ cloc' = [cloc EXCEPT ![c] = [NoLocal EXCEPT !.ret = Ok(Unit)]]
    /\ table' = EmptyBag
    /\ lastWrite' = {}
    /\ InitDb
    /\ UNCHANGED <<cpc, lastOp, prev>>
    /\ UNCHANGED dlVars

\* main.rs:307-311, simple_database.rs:176-187: the SELECT of the ids to
\* delete; with no id selected the command returns Ok(0) at once
CleanupSelect ==
    /\ \E c \in Callers, max_keep \in 0..ConcIds, order \in Ordered(table) :
         LET task_ids == Selected(order, max_keep)
         IN  /\ cpc[c] = "idle"
             /\ IF Len(task_ids) > 0
                  THEN /\ cpc' = [cpc EXCEPT ![c] = "delete"]
                       /\ cloc' = [cloc EXCEPT ![c] =
                                      [NoLocal EXCEPT !.task_ids = task_ids,
                                                      !.max = max_keep]]
                  ELSE /\ cloc' = [cloc EXCEPT ![c] = [NoLocal EXCEPT !.ret = Ok(0)]]
                       /\ UNCHANGED cpc
    /\ InitDb
    /\ UNCHANGED <<table, lastOp, prev, lastWrite>>
    /\ UNCHANGED dlVars

\* simple_database.rs:185-210: the DELETE of the ids selected, Ok(count) with
\* count = task_ids.len()
CleanupDelete ==
    /\ \E c \in Callers :
         LET del == DeleteIn(table, ParamsStr(cloc[c].task_ids))
         IN  /\ cpc[c] = "delete"
             /\ table' = (IF del.tag = "Ok" THEN del.v ELSE table)
             /\ lastWrite' = {r \in lastWrite :
                                del.tag = "Ok" => HasId(del.v, r.id)}
             /\ cpc' = [cpc EXCEPT ![c] = "idle"]
             /\ cloc' = [cloc EXCEPT ![c] =
                            [NoLocal EXCEPT !.ret =
                               IF del.tag = "Ok" THEN Ok(Len(cloc[c].task_ids))
                               ELSE Err(<<"cleanup failed: ">> \o del.v)]]
    /\ UNCHANGED <<created, lastOp, prev>>
    /\ UNCHANGED dlVars

ConcNext ==
    \/ SaveBegin
    \/ SaveExecute
    \/ ConcDelete
    \/ ConcClear
    \/ CleanupSelect
    \/ CleanupDelete

(***************************************************************************)
(* Specifications.                                                         *)
(***************************************************************************)
\* one invocation of download_file, under any environment
DlSpec == DlInit /\ [][DlNext]_vars

\* the invocation runs on its own thread and every call it makes returns
\* (the client has a 60 s timeout, sleeps are finite): it keeps taking steps
DlFairSpec == DlSpec /\ WF_vars(DlNext)

\* one caller issuing store commands, one after the other, on a new database
StoreSpec == StInit /\ [][StNext]_vars

\* the same caller, on a database file that another writer can damage
CorruptSpec == StInit /\ [][CorruptNext]_vars

\* two callers invoking store commands at once, on a new database
ConcSpec == StInit /\ [][ConcNext]_vars

(***************************************************************************)
(* Properties of download_file.                                            *)
(***************************************************************************)
AllAttemptsGot(status) ==
    /\ Len(seen) >= 1
    /\ \A i \in 1..Len(seen) : seen[i].kind = "status" /\ seen[i].status = status

\* C1: when every attempt of download_file receives HTTP 500, the invocation
\* makes exactly 3 attempts, sleeps 300 ms before the 2nd attempt and 600 ms
\* before the 3rd, and returns an error whose message contains "500".
C1_Http500BackoffThenError ==
    (pc = "done" /\ AllAttemptsGot(500)) =>
        /\ attempts = 3
        /\ slept = <<[after |-> 1, ms |-> 300], [after |-> 2, ms |-> 600]>>
        /\ result.tag = "Err"
        /\ Contains(result.v, "500")

\* C2: when download_file returns a path, the downloaded value of the last
\* progress event of the invocation equals the byte length of the file
\* written at the destination.
C2_LastProgressIsFileLength ==
    (pc = "done" /\ result.tag = "Ok" /\ Len(events) > 0) =>
        events[Len(events)].downloaded = file.len

\* a successful download of two chunks
C2_Witness ==
    /\ pc = "done"
    /\ result = Ok(SavePath)
    /\ ~readFailed
    /\ Len(events) = 2
    /\ file.len = BufSize + 1

\* the invocation returned before its first client.execute call
FailedBeforeTransfer ==
    /\ result.tag = "Err"
    /\ result.v[1] \in {MsgNoDownloadDir("")[1], MsgCreateDir("")[1],
                        MsgBuildClient("")[1], MsgBuildRequest("")[1]}

C8_OneOutcome ==
    /\ attempts <= 3
    /\ IF pc = "done"
         THEN /\ returns = 1
              /\ result.tag \in {"Ok", "Err"}
              /\ (attempts = 0 => FailedBeforeTransfer)
         ELSE returns = 0 /\ result = NoResult

\* C8 (amended): every invocation of download_file terminates with exactly
\* one outcome (one path or one error) after at most 3 transfer attempts,
\* and after at least 1 unless it fails before the first transfer (download
\* directory, directory creation, client or request construction).
C8_TerminatesWithOneOutcome == <>(pc = "done") /\ []C8_OneOutcome

\* the third attempt succeeds after two failed ones
C8_Witness ==
    /\ pc = "done"
    /\ attempts = 3
    /\ returns = 1
    /\ result.tag = "Ok"

\* C8 as stated: every invocation terminates with exactly one outcome after
\* at least 1 and at most 3 transfer attempts.
C8_Original ==
    <>(pc = "done") /\ [](pc = "done" => returns = 1 /\ attempts >= 1 /\ attempts <= 3)

\* C9: if an attempt receives a success status but reading the response body
\* fails mid-stream, download_file returns an error and does not return the
\* destination path as a success.
C9_ReadErrorIsFailure ==
    (pc = "done" /\ readFailed) => (result.tag = "Err" /\ result # Ok(SavePath))

\* C10: an error of File::create or write_all is never retried: download_file
\* returns that error at once and starts no further transfer attempt,
\* however many attempts remain.
C10_WriteErrorNotRetried ==
    ioFailedAt # 0 =>
        /\ pc = "done"
        /\ returns = 1
        /\ result.tag = "Err"
        /\ result.v[1] \in {MsgCreateFile("")[1], MsgWriteFile("")[1]}
        /\ attempts = ioFailedAt

\* a write fails on the first attempt, with two attempts left
C10_Witness ==
    /\ ioFailedAt = 1
    /\ attempt = 0
    /\ pc = "done"
    /\ result.v[1] = MsgWriteFile("")[1]

\* what client.execute produced makes the loop go on to the next attempt
IsRetryTrigger(o) == o.kind = "transport" \/ ~IsSuccess(o.status)

AllAttemptsFailed ==
    /\ Len(seen) = MaxAttempts
    /\ \A i \in 1..Len(seen) : IsRetryTrigger(seen[i])

\* C11: when all 3 attempts fail with retry triggers (transport errors and
\* non-success statuses in any mix), the error download_file returns is the
\* one of the third attempt: it carries the status code if that attempt got
\* a non-success status, the transport error text if it could not connect.
C11_LastErrorReturned ==
    (pc = "done" /\ AllAttemptsFailed) =>
        /\ result.tag = "Err"
        /\ IF seen[MaxAttempts].kind = "transport"
             THEN result.v = MsgRequest(seen[MaxAttempts].text)
             ELSE /\ result.v = MsgHttp(seen[MaxAttempts].status)
                  /\ Contains(result.v, StatusDisplay(seen[MaxAttempts].status)[1])

\* a transport error, then 404, then 500: the error returned says 500
C11_Witness ==
    /\ pc = "done"
    /\ Len(seen) = 3
    /\ seen[1].kind = "transport"
    /\ seen[2].status = 404
    /\ seen[3].status = 500
    /\ result.tag = "Err"
    /\ Contains(result.v, "500")

AllAttemptsTransportErrors ==
    /\ Len(seen) = MaxAttempts
    /\ \A i \in 1..Len(seen) : seen[i].kind = "transport"

\* C12: when all 3 attempts fail with transport errors, download_file sleeps
\* 300 ms after the first attempt and 600 ms after the second, and returns
\* the failure after the third attempt without any further sleep.
C12_NoSleepAfterLastAttempt ==
    (pc = "done" /\ AllAttemptsTransportErrors) =>
        /\ result.tag = "Err"
        /\ slept = <<[after |-> 1, ms |-> 300], [after |-> 2, ms |-> 600]>>

\* C15: progress emission is best-effort: whether app_handle.emit succeeds
\* or fails, the step of download_file that emits goes on to the next read
\* and changes neither the bytes written to the destination nor the outcome
\* of the invocation.
C15_EmitIsBestEffort ==
    [][pc = "emit" =>
         /\ pc' = "read"
         /\ UNCHANGED <<file, written, downloaded, result, returns, last_err,
                        attempt, attempts, opens>>]_vars

\* a download of two chunks completes although no event was delivered
C15_Witness ==
    /\ pc = "done"
    /\ result = Ok(SavePath)
    /\ ~readFailed
    /\ Len(events) = 2
    /\ \A i \in 1..Len(events) : ~events[i].delivered
    /\ file.len = 2 * BufSize

\* C16: download_file emits exactly one progress event for each chunk it has
\* written, after the write of that chunk; the downloaded values of the
\* events are strictly increasing, each the number of bytes written so far.
C16_OneEventPerWrittenChunk ==
    /\ Len(events) = Len(written) - (IF pc = "emit" THEN 1 ELSE 0)
    /\ \A i \in 1..Len(events) : events[i].downloaded = written[i]
    /\ \A i \in 1..Len(events) :
         events[i].downloaded > (IF i = 1 THEN 0 ELSE events[i - 1].downloaded)

\* two chunks of different sizes written, two events emitted
C16_Witness ==
    /\ pc = "read"
    /\ written = <<1, 1 + BufSize>>
    /\ Len(events) = 2
    /\ events[2].downloaded = 1 + BufSize
    /\ total = 0

\* the file at save_path is as it was before the invocation
PriorContentUnchanged ==
    /\ file.prior
    /\ file.len = (IF file.exists THEN PriorLen ELSE 0)

\* C17: within one invocation File::create(&save_path) is called at most
\* once, and only after an attempt received a success status; when every
\* attempt fails with a transport error or a non-success status, the content
\* the destination had before the invocation is unchanged.
C17_TruncateOnceAfterSuccess ==
    /\ opens <= 1
    /\ opens = 1 =>
         /\ Len(seen) >= 1
         /\ seen[Len(seen)].kind = "status"
         /\ IsSuccess(seen[Len(seen)].status)
    /\ (pc = "done" /\ AllAttemptsFailed) => (opens = 0 /\ PriorContentUnchanged)

\* three failed attempts (404, a transport error, 500) over an existing file
C17_Witness ==
    /\ pc = "done"
    /\ AllAttemptsFailed
    /\ seen[1].status = 404
    /\ seen[2].kind = "transport"
    /\ file = [exists |-> TRUE, len |-> PriorLen, prior |-> TRUE]

(***************************************************************************)
(* Properties of the task store.                                           *)
(***************************************************************************)
\* the entries of a getAll() list that carry an id
EntriesWithId(list, id) == {i \in 1..Len(list) : list[i].id = id}

\* C3: upsert is idempotent: saving the same task a second time with
\* identical content leaves count() unchanged, and getAll() then returns
\* exactly one entry with that id, equal to the saved task.
C3_UpsertIdempotent ==
    (lastOp.name = "save" /\ lastOp.again) =>
        /\ CountRows(table) = CountRows(prev)
        /\ \A r \in GetAllResults(table) :
             /\ r.tag = "Ok"
             /\ Cardinality(EntriesWithId(r.v, lastOp.arg.id)) = 1
             /\ \A i \in EntriesWithId(r.v, lastOp.arg.id) : r.v[i] = lastOp.arg

\* a task with items and results saved twice in a row, among other tasks
C3_Witness ==
    /\ lastOp.name = "save"
    /\ lastOp.again
    /\ lastOp.arg = Task(2)
    /\ CountRows(table) >= 3

Min(a, b) == IF a < b THEN a ELSE b
Max(a, b) == IF a > b THEN a ELSE b

\* the rows of a table have pairwise distinct creation timestamps
DistinctTimes(tbl) ==
    /\ \A r \in BagToSet(tbl) : CopiesIn(r, tbl) = 1
    /\ \A r, q \in BagToSet(tbl) : r # q => r.created_at # q.created_at

\* the effective max_tasks_to_keep of a cleanup command
MaxKeepOf(op) == IF op.arg.some THEN op.arg.v ELSE DefaultMaxKeep

\* C4: on a store of n tasks with distinct creation timestamps and for any
\* maxToKeep >= 0, cleanupOld(maxToKeep) leaves exactly the min(n, maxToKeep)
\* most recently created tasks, deletes the others and returns
\* max(0, n - maxToKeep); maxToKeep = 0 purges everything and maxToKeep >= n
\* changes nothing and returns 0.
C4_CleanupKeepsNewest ==
    (lastOp.name = "cleanup" /\ MaxKeepOf(lastOp) >= 0 /\ DistinctTimes(prev)) =>
        LET k == MaxKeepOf(lastOp)
            cnt == CountRows(prev)
            kept == BagToSet(table)
            gone == BagToSet(prev) \ BagToSet(table)
        IN  /\ lastOp.ret = Ok(Max(0, cnt - k))
            /\ CountRows(table) = Min(cnt, k)
            /\ kept \subseteq BagToSet(prev)
            /\ \A r \in kept : CopiesIn(r, table) = 1
            /\ \A r \in kept, q \in gone : TextLess(q.created_at, r.created_at)
            /\ (k = 0 => table = EmptyBag)
            /\ (k >= cnt => table = prev /\ lastOp.ret = Ok(0))

\* cleanupOld(2) on 5 tasks: the 2 newest are left and 3 is returned
C4_Witness ==
    /\ lastOp.name = "cleanup"
    /\ lastOp.arg = Some(2)
    /\ DistinctTimes(prev)
    /\ CountRows(prev) = 5
    /\ lastOp.ret = Ok(3)
    /\ BagToSet(table) = {RowOf(Task(4)), RowOf(Task(5))}

\* C5: round trip: after upsert(task), getAll() has an entry with that id
\* whose scalar fields, config, items (with their debug logs) and results
\* equal the original's, items and results in the original order.
C5_RoundTrip ==
    lastOp.name = "save" =>
        \A r \in GetAllResults(table) :
            /\ r.tag = "Ok"
            /\ \E i \in 1..Len(r.v) :
                 /\ r.v[i].id = lastOp.arg.id
                 /\ r.v[i] = lastOp.arg
                 /\ r.v[i].config = lastOp.arg.config
                 /\ r.v[i].items = lastOp.arg.items
                 /\ r.v[i].results = lastOp.arg.results

\* the task saved has two items, debug logs with structured payloads, and
\* strings with quotes, backslashes and a line feed
C5_Witness ==
    /\ lastOp.name = "save"
    /\ lastOp.arg = Task(2)
    /\ Len(lastOp.arg.items) = 2
    /\ lastOp.arg.items[1].debug_logs = Some(<<LogA, LogB>>)
    /\ HasId(table, IdText(3))

\* C6: delete(id) of an id that is not in the store returns success and
\* leaves the store unchanged; delete(id) of a present id removes exactly
\* that row and leaves every other row unchanged.
C6_DeleteFrame ==
    lastOp.name = "delete" =>
        /\ lastOp.ret = Ok(Unit)
        /\ (~HasId(prev, lastOp.arg) => table = prev)
        /\ (HasId(prev, lastOp.arg) => CountRows(table) = CountRows(prev) - 1)
        /\ ~HasId(table, lastOp.arg)
        /\ \A r \in BagToSet(prev) \cup BagToSet(table) :
             r.id # lastOp.arg => CopiesIn(r, table) = CopiesIn(r, prev)

\* a delete of an absent id on a store that holds other tasks
C6_Witness ==
    /\ lastOp.name = "delete"
    /\ lastOp.ret = Ok(Unit)
    /\ ~HasId(prev, lastOp.arg)
    /\ CountRows(prev) >= 2
    /\ table = prev

\* C7: after any sequence of store operations, getAll() returns every stored
\* task exactly once, ordered by creation time descending.
C7_GetAllNewestFirst ==
    lastOp.name = "getAll" =>
        /\ lastOp.ret.tag = "Ok"
        /\ Len(lastOp.ret.v) = CountRows(table)
        /\ \A row \in BagToSet(table) :
             /\ Cardinality(EntriesWithId(lastOp.ret.v, row.id)) = 1
             /\ \A i \in EntriesWithId(lastOp.ret.v, row.id) :
                  RowOf(lastOp.ret.v[i]) = row
        /\ \A i \in 1..(Len(lastOp.ret.v) - 1) :
             ~TextLess(lastOp.ret.v[i].created_at, lastOp.ret.v[i + 1].created_at)

\* getAll() on four tasks, two of them created at the same time
C7_Witness ==
    /\ lastOp.name = "getAll"
    /\ lastOp.ret.tag = "Ok"
    /\ Len(lastOp.ret.v) = 4
    /\ \E i \in 1..3 : lastOp.ret.v[i].created_at = lastOp.ret.v[i + 1].created_at
    /\ \E i \in 1..3 : TextLess(lastOp.ret.v[i + 1].created_at, lastOp.ret.v[i].created_at)

\* the number of rows of a table that carry an id
RowsWithId(tbl, id) == CountRows(tbl) - CountRows(DeleteRows(tbl, {id}))

\* C18: after any sequence of upsert, delete, clear and cleanupOld the table
\* holds at most one row per task id, count() equals the number of entries
\* getAll() returns, and count() is 0 immediately after clear().
C18_StoreConsistent ==
    /\ \A id \in Ids : RowsWithId(table, id) <= 1
    /\ \A r \in GetAllResults(table) : r.tag = "Ok" /\ Len(r.v) = CountRows(table)
    /\ lastOp.name = "count" =>
         \A r \in GetAllResults(table) : Len(r.v) = lastOp.ret.v
    /\ lastOp.name = "getAll" => Len(lastOp.ret.v) = CountRows(table)
    /\ lastOp.name = "clear" => CountRows(table) = 0

\* clear() on a table of three rows
C18_Witness ==
    /\ lastOp.name = "clear"
    /\ CountRows(prev) = 3
    /\ CountRows(table) = 0
    /\ GetAllResults(table) = {Ok(<<>>)}

\* C13: when a stored row has a malformed config, items or results blob,
\* getAll() returns an error; it never returns a list of tasks from which
\* the malformed task is left out.
C13_CorruptBlobFailsGetAll ==
    (lastOp.name = "getAll" /\ BagToSet(table) \cap CorruptRows # {}) =>
        /\ lastOp.ret.tag = "Err"
        /\ \A r \in GetAllResults(table) : r.tag = "Err"

\* getAll() on three rows, one of them with a malformed results blob
C13_Witness ==
    /\ lastOp.name = "getAll"
    /\ lastOp.ret.tag = "Err"
    /\ CountRows(table) = 3
    /\ \E row \in BagToSet(table) :
         /\ row.results_json = <<"[", "{", "}", "]">>
         /\ row.id = IdText(2)

(***************************************************************************)
(* Properties of the store commands invoked concurrently.                  *)
(***************************************************************************)
\* for each id, the table holds the row of the last upsert executed for it
C14_LastWriteStored ==
    \A r \in lastWrite : BagIn(r, table) /\ RowsWithId(table, r.id) = 1

\* the step that executes an upsert leaves the rows of the other ids alone
C14_UpsertFrame ==
    [][\A c \in Callers :
         (cpc[c] = "insert" /\ cpc'[c] = "idle") =>
             DeleteRows(table', {cloc[c].row.id}) = DeleteRows(table, {cloc[c].row.id})]_vars

\* C14: upsert is a full-row last-write-wins by id: under any interleaving
\* of upserts, concurrent upserts of one id included, the row stored for an
\* id equals in every field the row of the last upsert executed for that id
\* (never a mix of two upserts), and an upsert leaves the rows of the other
\* ids unchanged.
C14_LastWriteWins == []C14_LastWriteStored /\ C14_UpsertFrame

\* two upserts of one id in progress at once, with different contents, over
\* a row of that id stored by an earlier upsert, and a row of another id
C14_Witness ==
    /\ \A c \in Callers : cpc[c] = "insert" /\ cloc[c].row.id = IdText(1)
    /\ cloc["a"].row # cloc["b"].row
    /\ \E r \in lastWrite : r.id = IdText(1)
    /\ \E r \in lastWrite : r.id = IdText(2)
    /\ CountRows(table) = 2

\* row r is among the first k rows of tbl in every order by created_at DESC
AmongNewest(tbl, r, k) ==
    Cardinality({q \in BagToSet(tbl) \ {r} :
                   ~TextLess(q.created_at, r.created_at)}) < k

\* C19: cleanupOld is atomic under interleaving: even when an upsert or a
\* delete of another invocation runs between its selection of the old ids
\* and its deletion, the value it returns is the number of rows it removed,
\* and it removes no row that is among the maxToKeep most recently created
\* rows at the moment of the deletion.
C19_CleanupAtomic ==
    [][\A c \in Callers :
         (cpc[c] = "delete" /\ cpc'[c] = "idle") =>
             /\ cloc'[c].ret = Ok(CountRows(table) - CountRows(table'))
             /\ \A r \in BagToSet(table) \ BagToSet(table') :
                  ~AmongNewest(table, r, cloc[c].max)]_vars
====
